---------------------------- MODULE Spec2Model ----------------------------
(***************************************************************************)
(* CFRParser: the title walker (CFRParser.py) and the node renderer        *)
(* (CFRToMd.py).                                                           *)
(*                                                                         *)
(* Text is modelled as a sequence of one-character strings, so that        *)
(* prefixes, suffixes and percent-encoding are computed character by       *)
(* character.  Python's None is the model value None.                      *)
(***************************************************************************)
EXTENDS Naturals, Sequences, FiniteSets, TLC

VARIABLES
    \* ---- fetch_and_parse_cfr_xml (CFRParser.py) ----
    pc,            \* position in fetch_and_parse_cfr_xml
    title_num,     \* the argument
    cache,         \* ./cache/title<N>.xml: whether it is a file, and its text
    cache_at_call, \* history: the cache file as it was when the run began
    cache_dir,     \* whether ./cache exists
    remote,        \* the XML text the versioner serves for the title
    requests,      \* remote requests issued so far, in order
    stdout,        \* the kinds of lines printed so far
    exc,           \* the uncaught exception that ended the run, or None
    date,          \* get_title_date's result inside get_cfr_title_xml
    xml_data,      \* the local xml_data
    subtitle, chapter, subchapter, part, sub_part,   \* the loop variables
    iter,          \* what each for-loop has left to iterate
    documents,     \* ./documents: path -> the result written there
    emitted,       \* history: <<leaf, path>> of every write_text, in order
    visits,        \* history: how often each loop body was entered, per node
    \* ---- process_cfr_xml_element (CFRToMd.py) called on its own ----
    element, title, paragraphs, text, citation, md, rpc,
    \* ---- the deep-link builders called on their own ----
    args, url, lpc

walk_vars == <<pc, title_num, cache, cache_at_call, cache_dir, remote, requests, stdout, exc,
               date, xml_data, subtitle, chapter, subchapter, part, sub_part,
               iter, documents, emitted, visits>>
render_vars == <<element, title, paragraphs, text, citation, md, rpc>>
link_vars == <<args, url, lpc>>
alone_vars == <<render_vars, link_vars>>
vars == <<walk_vars, render_vars, link_vars>>

\* Python's None where a text is expected: a value no text equals (a text
\* holds one-character strings only).
None == <<"<None>">>

\* ------------------------------------------------------------------------
\* Bounds of the model
\* ------------------------------------------------------------------------
MaxSubchapters == 2   \* DIV4 nodes in the title document
MaxParts == 2         \* DIV5 nodes in the title document
MaxSubparts == 2      \* DIV6 nodes in the title document
MaxLeaves == 1        \* DIV8 nodes, and DIV9 nodes, per subpart
MaxParas == 3         \* P elements of a leaf handed to the renderer alone

\* ------------------------------------------------------------------------
\* Text helpers
\* ------------------------------------------------------------------------
Min(a, b) == IF a <= b THEN a ELSE b

\* The concatenation of a sequence of sequences.
Concat(ss) ==
    LET upto[k \in 0..Len(ss)] == IF k = 0 THEN <<>> ELSE upto[k - 1] \o ss[k]
    IN upto[Len(ss)]

RECURSIVE Str(_)
\* A text as one string value (what a file or a JSON field holds).
Str(s) ==
    IF Len(s) = 0 THEN ""
    ELSE IF Len(s) = 1 THEN s[1]
    ELSE Str(SubSeq(s, 1, Len(s) \div 2)) \o Str(SubSeq(s, Len(s) \div 2 + 1, Len(s)))

StartsWith(s, p) == Len(p) <= Len(s) /\ SubSeq(s, 1, Len(p)) = p
EndsWith(s, p) == Len(p) <= Len(s) /\ SubSeq(s, Len(s) - Len(p) + 1, Len(s)) = p
Contains(s, c) == \E i \in 1..Len(s) : s[i] = c

\* The part of s after its last "/" (all of s when it has none).
LastSegment(s) ==
    LET slashes == {i \in 1..Len(s) : s[i] = "/"}
        last == IF slashes = {} THEN 0
                ELSE CHOOSE i \in slashes : \A j \in slashes : j <= i
    IN SubSeq(s, last + 1, Len(s))

\* str(n) for a natural number n.
Digit(d) == <<"0", "1", "2", "3", "4", "5", "6", "7", "8", "9">>[d + 1]
RECURSIVE str(_)
str(n) == IF n < 10 THEN <<Digit(n)>> ELSE str(n \div 10) \o <<Digit(n % 10)>>

\* ------------------------------------------------------------------------
\* urllib.parse.quote(s) with its defaults (safe = "/")
\* ------------------------------------------------------------------------
\* The characters quote never encodes, among those the model uses.
AlwaysSafe == {"0", "1", "2", "3", "4", "5", "6", "7", "8", "9",
               "a", "b", "A", "B", "I", "_", ".", "-", "~"}
\* "%XX" for the other characters the model uses.
PercentHex(c) ==
    CASE c = " " -> <<"%", "2", "0">>
      [] c = "%" -> <<"%", "2", "5">>
      [] c = "/" -> <<"%", "2", "F">>
      [] c = "\n" -> <<"%", "0", "A">>
      [] c = "#" -> <<"%", "2", "3">>
      [] c = "*" -> <<"%", "2", "A">>

quote_safe == {"/"}

RECURSIVE quote(_)
quote(s) ==
    IF s = <<>> THEN <<>>
    ELSE (IF Head(s) \in AlwaysSafe \cup quote_safe
          THEN <<Head(s)>> ELSE PercentHex(Head(s))) \o quote(Tail(s))

\* ------------------------------------------------------------------------
\* The deep-link builders
\* ------------------------------------------------------------------------
LinkHead(title_n, subtitle_n, chapter_n, part_n, subpart_n) ==
    <<"h", "t", "t", "p", "s", ":", "/", "/", "w", "w", "w", ".", "e", "c",
      "f", "r", ".", "g", "o", "v", "/", "c", "u", "r", "r", "e", "n", "t",
      "/", "t", "i", "t", "l", "e", "-">> \o title_n
    \o <<"/", "s", "u", "b", "t", "i", "t", "l", "e", "-">> \o subtitle_n
    \o <<"/", "c", "h", "a", "p", "t", "e", "r", "-">> \o chapter_n
    \o <<"/", "p", "a", "r", "t", "-">> \o part_n
    \o <<"/", "s", "u", "b", "p", "a", "r", "t", "-">> \o subpart_n

AppendixSegment == <<"/", "a", "p", "p", "e", "n", "d", "i", "x", "-">>
SectionSegment == <<"/", "s", "e", "c", "t", "i", "o", "n", "-">>

get_ecfr_link_to_appendix(title_n, subtitle_n, chapter_n, part_n, subpart_n, appendix_n) ==
    LinkHead(title_n, subtitle_n, chapter_n, part_n, subpart_n)
    \o AppendixSegment \o quote(appendix_n)

get_ecfr_link_to_section(title_n, subtitle_n, chapter_n, part_n, subpart_n, section_n) ==
    LinkHead(title_n, subtitle_n, chapter_n, part_n, subpart_n)
    \o SectionSegment \o quote(section_n)


\* ------------------------------------------------------------------------
\* XML elements as BeautifulSoup presents them
\* ------------------------------------------------------------------------
\* An element's contents is the sequence of its children: text nodes, and
\* child tags (<I>, <E>, ...) that themselves hold one text node.
TextNode(s) == [kind |-> "text", s |-> s]
ChildTag(s) == [kind |-> "tag", s |-> s]
\* What tag.HEAD / tag.CITA gives when there is no such sub-element.
NoTag == <<[kind |-> "absent", s |-> <<>>]>>

\* Tag.string: the single child's string, None with no child or several.
string(contents) == IF Len(contents) = 1 THEN contents[1].s ELSE None

\* All the text inside an element, in document order.
inner_text(contents) == Concat([i \in 1..Len(contents) |-> contents[i].s])

\* An f-string's rendering of a value that is a text or None.
format(v) == IF v = None THEN <<"N", "o", "n", "e">> ELSE v

\* ------------------------------------------------------------------------
\* process_cfr_xml_element (CFRToMd.py)
\* ------------------------------------------------------------------------
NO_TITLE == <<"N", "O", " ", "T", "I", "T", "L", "E">>
NO_CITE == <<"N", "O", " ", "C", "I", "T", "E">>

title_of(e) == IF e.HEAD # NoTag THEN string(e.HEAD) ELSE NO_TITLE

paragraph_of(p) == IF string(p) # None THEN string(p) ELSE <<"\n">>

paragraphs_of(e) == [i \in 1..Len(e.P) |-> paragraph_of(e.P[i])]

RECURSIVE join(_, _)
\* sep.join(ss)
join(sep, ss) ==
    IF ss = <<>> THEN <<>>
    ELSE IF Len(ss) = 1 THEN ss[1]
    ELSE ss[1] \o sep \o join(sep, Tail(ss))

text_of(e) == join(<<"\n">>, paragraphs_of(e))

citation_of(e) == IF e.CITA # NoTag THEN string(e.CITA) ELSE NO_CITE

markdown(t, body, c) ==
    <<"\n", " ", " ", " ", " ", "#", " ">> \o format(t)
    \o <<"\n", " ", " ", " ", " ", "\n", " ", " ", " ", " ">> \o body
    \o <<"\n", " ", " ", " ", " ", "\n", " ", " ", " ", " ", "*", "*">> \o format(c)
    \o <<"*", "*", "\n", " ", " ", " ", " ">>

process_cfr_xml_element(e) == markdown(title_of(e), text_of(e), citation_of(e))

\* ------------------------------------------------------------------------
\* Title documents
\* ------------------------------------------------------------------------
\* A title's XML text is described by its shape: one DIV1 holding one DIV2
\* holding one DIV3; nSub DIV4 under the DIV3; nParts DIV5, the j-th under
\* DIV4 number Min(j, nSub) (under the DIV3 when there is no DIV4); nSubparts
\* DIV6, the k-th under DIV5 number Min(k, nParts); nSec DIV8 and, by the
\* flavour, DIV9 under every DIV6; by the flavour a DIV8 directly under the
\* first DIV5.  issue is the issue date of the text.
Flavours ==
    << \* a section and an appendix with the same N
       [sec |-> <<"1">>, app |-> <<"1">>, nApp |-> 1, direct |-> FALSE,
        subpartHead |-> TRUE],
       \* an N with a space; a section directly under a part
       [sec |-> <<"7", " ", "a">>, app |-> <<"A">>, nApp |-> 1, direct |-> TRUE,
        subpartHead |-> TRUE],
       \* an N with a slash; subparts without a HEAD of their own
       [sec |-> <<"7", "/", "a">>, app |-> <<"B">>, nApp |-> 0, direct |-> FALSE,
        subpartHead |-> FALSE] >>

Xmls(issue) ==
    {x \in [nSub : 0..MaxSubchapters, nParts : 0..MaxParts,
            nSubparts : 0..MaxSubparts, nSec : 0..MaxLeaves,
            flavour : 1..Len(Flavours), issue : {issue}] :
        x.nParts = 0 => x.nSubparts = 0}

\* No text at all (the text of an absent file, of xml_data = None).
NoXml == [nSub |-> 0, nParts |-> 0, nSubparts |-> 0, nSec |-> 0, flavour |-> 0,
          issue |-> "none"]

Node(tag, i, m) == [tag |-> tag, i |-> i, m |-> m]
Root == Node("root", 0, 0)
NoNode == Node("none", 0, 0)

\* The nodes of document x.
NodeSet(x) ==
    {Root, Node("DIV1", 1, 0), Node("DIV2", 1, 0), Node("DIV3", 1, 0)}
    \cup {Node("DIV4", i, 0) : i \in 1..x.nSub}
    \cup {Node("DIV5", j, 0) : j \in 1..x.nParts}
    \cup {Node("DIV6", k, 0) : k \in 1..x.nSubparts}
    \cup {Node("DIV8", k, m) : k \in 1..x.nSubparts, m \in 1..x.nSec}
    \cup {Node("DIV9", k, m) : k \in 1..x.nSubparts, m \in 1..Flavours[x.flavour].nApp}
    \cup (IF Flavours[x.flavour].direct /\ x.nParts > 0
          THEN {Node("DIV8", 0, 1)} ELSE {})

\* Depth of a node in the hierarchy (a DIV8 and a DIV9 are both leaves).
Level(n) ==
    CASE n.tag = "root" -> 0 [] n.tag = "DIV1" -> 1 [] n.tag = "DIV2" -> 2
      [] n.tag = "DIV3" -> 3 [] n.tag = "DIV4" -> 4 [] n.tag = "DIV5" -> 5
      [] n.tag = "DIV6" -> 6 [] n.tag = "DIV8" -> 7 [] n.tag = "DIV9" -> 7

\* Where node n sits: the DIV4, DIV5 and DIV6 it is, or is under (0: none).
Place(x, n) ==
    LET sp == IF Level(n) >= 6 THEN n.i ELSE 0
        p == CASE Level(n) = 5 -> n.i
               [] Level(n) = 6 -> Min(n.i, x.nParts)
               [] Level(n) = 7 -> IF n.i = 0 THEN 1 ELSE Min(n.i, x.nParts)
               [] OTHER -> 0
        sc == CASE Level(n) = 4 -> n.i
                [] Level(n) >= 5 -> Min(p, x.nSub)
                [] OTHER -> 0
    IN [sc |-> sc, p |-> p, sp |-> sp]

\* d is a descendant of a.
IsUnder(x, d, a) ==
    /\ Level(d) > Level(a)
    /\ CASE a.tag = "DIV4" -> Place(x, d).sc = a.i
         [] a.tag = "DIV5" -> Place(x, d).p = a.i
         [] a.tag = "DIV6" -> Place(x, d).sp = a.i
         [] a.tag \in {"DIV8", "DIV9"} -> FALSE
         [] OTHER -> TRUE

\* Document order: a node comes before its descendants, a part's own
\* sections before its subparts, a subpart's sections before its appendices.
Base == MaxSubchapters + MaxParts + MaxSubparts + MaxLeaves + 2
Position(x, n) ==
    LET pl == Place(x, n)
        kind == IF n.tag = "DIV9" THEN 1 ELSE 0
    IN ((((pl.sc * Base + pl.p) * Base + pl.sp) * 2 + kind) * Base + n.m) * 8 + Level(n)

\* The nodes of S in document order.
InOrder(x, S) ==
    [r \in 1..Cardinality(S) |->
        CHOOSE d \in S :
            Cardinality({e \in S : Position(x, e) < Position(x, d)}) = r - 1]

\* tag.find_all(name): the descendants of n with that name, in document order.
find_all(x, n, name) ==
    InOrder(x, {d \in NodeSet(x) : d.tag = name /\ IsUnder(x, d, n)})

Letter(i) == <<"A", "B", "C", "D">>[i]

\* node["N"]
N(x, n) ==
    LET fl == Flavours[x.flavour]
        Ord(code, m) == IF m = 1 THEN code ELSE code \o <<".">> \o str(m)
    IN CASE n.tag = "DIV1" -> <<"2", "9">>
         [] n.tag = "DIV2" -> <<"A">>
         [] n.tag = "DIV3" -> <<"I">>
         [] n.tag = "DIV4" -> <<Letter(n.i)>>
         [] n.tag = "DIV5" -> str(n.i)
         [] n.tag = "DIV6" -> <<Letter(IF n.i <= x.nParts THEN 1
                                       ELSE n.i - x.nParts + 1)>>
         [] n.tag = "DIV8" -> Ord(fl.sec, n.m)
         [] n.tag = "DIV9" -> Ord(fl.app, n.m)

\* The contents of n's own HEAD child, NoTag when it has none.
OwnHead(x, n) ==
    IF n.tag = "root" \/ (n.tag = "DIV6" /\ ~Flavours[x.flavour].subpartHead)
    THEN NoTag
    ELSE <<TextNode(<<"H">> \o N(x, n))>>

\* tag.HEAD: the first HEAD among the tag's descendants, in document order.
HEAD(x, n) ==
    LET with == {d \in NodeSet(x) :
                    (d = n \/ IsUnder(x, d, n)) /\ OwnHead(x, d) # NoTag}
    IN IF with = {} THEN NoTag
       ELSE OwnHead(x, CHOOSE d \in with :
                          \A e \in with : Position(x, d) <= Position(x, e))

\* `tag.HEAD.string if tag.HEAD else ""`
description(x, n) == IF HEAD(x, n) # NoTag THEN string(HEAD(x, n)) ELSE <<>>

\* A leaf as the renderer sees it.
Element(x, n) ==
    [HEAD |-> HEAD(x, n),
     P |-> <<<<TextNode(<<"A">>)>>>>,
     CITA |-> IF n.tag = "DIV8" THEN <<TextNode(<<"B">>)>> ELSE NoTag]

Leaves(x) == {d \in NodeSet(x) : d.tag \in {"DIV8", "DIV9"}}

\* ------------------------------------------------------------------------
\* fetch_and_parse_cfr_xml: the Raw XML Provider steps
\* ------------------------------------------------------------------------
TitleNums == {29}
LatestIssueDate == "2024-01-01"

NoneData == [type |-> "NoneType", text |-> NoXml]
AbsentFile == [is_file |-> FALSE, text |-> NoXml]

\* root = BeautifulSoup(xml_data, features="xml"): str and bytes parse alike.
root == xml_data.text

NoIter == [DIV2 |-> <<>>, DIV3 |-> <<>>, DIV4 |-> <<>>, DIV5 |-> <<>>,
           DIV6 |-> <<>>, DIV8 |-> <<>>, DIV9 |-> <<>>]

walk_locals == <<subtitle, chapter, subchapter, part, sub_part, iter>>
outputs == <<documents, emitted, visits>>

InitWalk ==
    /\ pc = "call"
    /\ title_num \in TitleNums
    /\ remote \in Xmls(LatestIssueDate)
    /\ cache \in {AbsentFile,
                  [is_file |-> TRUE, text |-> [remote EXCEPT !.issue = "2023-01-01"]]}
    /\ cache_at_call = cache
    /\ cache_dir \in IF cache.is_file THEN {TRUE} ELSE BOOLEAN
    /\ requests = <<>>
    /\ stdout = {}
    /\ exc = "none"
    /\ date = "unset"
    /\ xml_data = NoneData
    /\ subtitle = NoNode /\ chapter = NoNode /\ subchapter = NoNode
    /\ part = NoNode /\ sub_part = NoNode
    /\ iter = NoIter
    /\ documents = <<>>
    /\ emitted = {}
    /\ visits = [DIV4 |-> 0, DIV5 |-> [j \in 1..remote.nParts |-> 0],
                 DIV6 |-> [k \in 1..remote.nSubparts |-> 0],
                 leaf |-> [l \in Leaves(remote) |-> 0]]

\* A cache hit that refreshes the text from the remote all the same.
CacheHitRefetch ==
    /\ pc = "call"
    /\ cache.is_file
    /\ stdout' = stdout \cup {"File in cache"}
    /\ requests' = Append(requests, [api |-> "full", status |-> 200])
    /\ xml_data' = [type |-> "str", text |-> remote]
    /\ pc' = "loaded"
    /\ UNCHANGED <<title_num, cache_at_call, cache, cache_dir, remote, exc, date>>
    /\ UNCHANGED <<walk_locals, outputs, alone_vars>>

\* Lines 109-111: the cache file exists.
CacheHit ==
    /\ pc = "call"
    /\ cache.is_file
    /\ stdout' = stdout \cup {"File in cache"}
    /\ xml_data' = [type |-> "bytes", text |-> cache.text]
    /\ pc' = "loaded"
    /\ UNCHANGED <<title_num, cache_at_call, cache, cache_dir, remote, requests, exc, date>>
    /\ UNCHANGED <<walk_locals, outputs, alone_vars>>

\* Lines 112-116: no cache file; make ./cache and enter get_cfr_title_xml.
CacheMiss ==
    /\ pc = "call"
    /\ ~cache.is_file
    /\ stdout' = stdout \cup {"File not in cache. Retrieve."}
    /\ cache_dir' = TRUE
    /\ pc' = "get_title_date"
    /\ UNCHANGED <<title_num, cache_at_call, cache, remote, requests, exc, date, xml_data>>
    /\ UNCHANGED <<walk_locals, outputs, alone_vars>>

\* get_title_date, called at line 90: the listing answers with an error
\* status (raise_for_status raises), or lists the title, or does not.
GetTitleDate ==
    /\ pc = "get_title_date"
    /\ \E answer \in {"error", "listed", "not listed"} :
        /\ requests' = Append(requests, [api |-> "titles", status |-> IF answer = "error" THEN 500 ELSE 200])
        /\ IF answer = "error"
           THEN /\ exc' = "HTTPError"
                /\ pc' = "raised"
                /\ date' = date
           ELSE /\ exc' = exc
                /\ pc' = "request_xml"
                /\ date' = IF answer = "listed" THEN remote.issue ELSE "None"
    /\ UNCHANGED <<title_num, cache_at_call, cache, cache_dir, remote, stdout, xml_data>>
    /\ UNCHANGED <<walk_locals, outputs, alone_vars>>

\* get_cfr_title_xml lines 91-101: request the XML body and return it, or
\* print the failure and return None; the caller binds xml_data (line 118).
RequestXml ==
    /\ pc = "request_xml"
    /\ \E status \in {200, 404, 500} :
        /\ requests' = Append(requests, [api |-> "full", status |-> status])
        /\ IF status = 200
           THEN /\ xml_data' = [type |-> "str", text |-> remote]
                /\ stdout' = stdout \cup {"Request file from"}
           ELSE /\ xml_data' = NoneData
                /\ stdout' = stdout \cup {"Request file from", "Request failed with status code"}
    /\ pc' = "write_cache"
    /\ UNCHANGED <<title_num, cache_at_call, cache, cache_dir, remote, exc, date>>
    /\ UNCHANGED <<walk_locals, outputs, alone_vars>>

\* Line 119: file_path.write_text(xml_data).  Path.write_text raises
\* TypeError for a value that is not a str, before it opens the file.
WriteCache ==
    /\ pc = "write_cache"
    /\ IF xml_data.type = "str"
       THEN /\ cache' = [is_file |-> TRUE, text |-> xml_data.text]
            /\ pc' = "loaded"
            /\ exc' = exc
       ELSE /\ cache' = cache
            /\ pc' = "raised"
            /\ exc' = "TypeError"
    /\ UNCHANGED <<title_num, cache_at_call, cache_dir, remote, requests, stdout, date, xml_data>>
    /\ UNCHANGED <<walk_locals, outputs, alone_vars>>

\* Lines 121-134: parse, read the title's description, start the walk.
Parse ==
    /\ pc = "loaded"
    /\ stdout' = stdout \cup {"XML loaded for title", "Title description"}
    /\ iter' = [NoIter EXCEPT !.DIV2 = find_all(root, Root, "DIV2")]
    /\ pc' = "for_subtitle"
    /\ UNCHANGED <<title_num, cache_at_call, cache, cache_dir, remote, requests, exc, date, xml_data>>
    /\ UNCHANGED <<subtitle, chapter, subchapter, part, sub_part, outputs, alone_vars>>

\* title = root.find("DIV1"); title.HEAD.string if title.HEAD else ""
\* (lines 125-126)
title_description == description(root, find_all(root, Root, "DIV1")[1])

\* ------------------------------------------------------------------------
\* fetch_and_parse_cfr_xml: the walk (lines 134-242)
\* ------------------------------------------------------------------------
provider_vars == <<title_num, cache_at_call, cache, cache_dir, remote, requests, exc, date, xml_data>>

\* pathlib's reading of a path text: a leading "./" and repeated "/" go.
RECURSIVE Collapse(_)
Collapse(s) ==
    IF Len(s) < 2 THEN s
    ELSE IF s[1] = "/" /\ s[2] = "/" THEN Collapse(Tail(s))
    ELSE <<s[1]>> \o Collapse(Tail(s))

Path(s) ==
    LET c == Collapse(s)
    IN IF StartsWith(c, <<".", "/">>) THEN SubSeq(c, 3, Len(c)) ELSE c

\* Lines 193-195 and 235-237: the file of a leaf.
leaf_file(title_n, subtitle_n, chapt_n, subchapter_n, part_n, sub_part_n, leaf_n) ==
    Str(Path(<<".", "/", "d", "o", "c", "u", "m", "e", "n", "t", "s", "/",
           "t", "i", "t", "l", "e", "_">> \o str(title_n)
         \o <<"/", "s", "u", "b", "t", "i", "t", "l", "e", "_">> \o subtitle_n
         \o <<"/", "c", "h", "a", "p", "_">> \o chapt_n
         \o <<"/", "s", "u", "b", "c", "h", "a", "p", "t", "_">> \o subchapter_n
         \o <<"/", "p", "a", "r", "t", "_">> \o part_n
         \o <<"/", "s", "u", "b", "p", "a", "r", "t", "_">> \o sub_part_n
         \o <<"/">> \o quote(leaf_n) \o <<".", "j", "s", "o", "n">>))

\* Lines 172-186: the metadata of a section.
section_metadata(section, ecfr_link) ==
    [title_number |-> title_num,
     title_description |-> Str(title_description),
     chapter_number |-> Str(N(root, chapter)),
     chapter_description |-> Str(description(root, chapter)),
     subchapter_number |-> Str(N(root, subchapter)),
     subchapter_description |-> Str(description(root, subchapter)),
     part_number |-> Str(N(root, part)),
     part_description |-> Str(description(root, part)),
     sub_part_number |-> Str(N(root, sub_part)),
     sub_part_description |-> Str(description(root, sub_part)),
     section_number |-> Str(N(root, section)),
     section_description |-> Str(description(root, section)),
     url |-> Str(ecfr_link)]

\* Lines 214-228: the metadata of an appendix.
appendix_metadata(appendix, ecfr_link) ==
    [title_number |-> title_num,
     title_description |-> Str(title_description),
     chapter_number |-> Str(N(root, chapter)),
     chapter_description |-> Str(description(root, chapter)),
     subchapter_number |-> Str(N(root, subchapter)),
     subchapter_description |-> Str(description(root, subchapter)),
     part_number |-> Str(N(root, part)),
     part_description |-> Str(description(root, part)),
     sub_part_number |-> Str(N(root, sub_part)),
     sub_part_description |-> Str(description(root, sub_part)),
     appendix_number |-> Str(N(root, appendix)),
     appendix_description |-> Str(description(root, appendix)),
     url |-> Str(ecfr_link)]

\* Lines 188-191 and 230-233.
result(leaf, ecfr_link, metadata) ==
    [page_content |-> Str(process_cfr_xml_element(Element(root, leaf))
                          \o <<"\n", "\n", "_", "_">> \o ecfr_link \o <<"_", "_">>),
     metadata |-> metadata]

\* file.write_text(json.dumps(result, indent=4)), with the parent directories
\* made first: the file now holds the result, whatever it held.
write_text(file, leaf, res) ==
    /\ documents' = (file :> res) @@ documents
    /\ emitted' = emitted \cup {<<leaf, file>>}
    /\ visits' = [visits EXCEPT !.leaf[leaf] = @ + 1]

\* for subtitle in root.find_all("DIV2")
ForSubtitle ==
    /\ pc = "for_subtitle"
    /\ iter.DIV2 # <<>>
    /\ subtitle' = Head(iter.DIV2)
    /\ iter' = [iter EXCEPT !.DIV2 = Tail(@),
                            !.DIV3 = find_all(root, Head(iter.DIV2), "DIV3")]
    /\ stdout' = stdout \cup {"Subtitle"}
    /\ pc' = "for_chapter"
    /\ UNCHANGED <<alone_vars, provider_vars, chapter, subchapter, part, sub_part, outputs>>

ForSubtitleEnd ==
    /\ pc = "for_subtitle"
    /\ iter.DIV2 = <<>>
    /\ pc' = "done"
    /\ UNCHANGED <<alone_vars, provider_vars, stdout, walk_locals, outputs>>

\* for chapter in subtitle.find_all("DIV3")
ForChapter ==
    /\ pc = "for_chapter"
    /\ iter.DIV3 # <<>>
    /\ chapter' = Head(iter.DIV3)
    /\ iter' = [iter EXCEPT !.DIV3 = Tail(@),
                            !.DIV4 = find_all(root, Head(iter.DIV3), "DIV4")]
    /\ stdout' = stdout \cup {"Chapter"}
    /\ pc' = "for_subchapter"
    /\ UNCHANGED <<alone_vars, provider_vars, subtitle, subchapter, part, sub_part, outputs>>

ForChapterEnd ==
    /\ pc = "for_chapter"
    /\ iter.DIV3 = <<>>
    /\ pc' = "for_subtitle"
    /\ UNCHANGED <<alone_vars, provider_vars, stdout, walk_locals, outputs>>

\* The parts of the subchapter's own subtree.
parts_of_subchapter_scoped(sc) == find_all(root, sc, "DIV5")

\* What line 150 enumerates on entering a subchapter.
parts_of_subchapter(sc) == find_all(root, Root, "DIV5")

\* for subchapter in chapter.find_all("DIV4")
ForSubchapter ==
    /\ pc = "for_subchapter"
    /\ iter.DIV4 # <<>>
    /\ subchapter' = Head(iter.DIV4)
    /\ iter' = [iter EXCEPT !.DIV4 = Tail(@),
                            !.DIV5 = parts_of_subchapter(Head(iter.DIV4))]
    /\ stdout' = stdout \cup {"Subchapter"}
    /\ visits' = [visits EXCEPT !.DIV4 = @ + 1]
    /\ pc' = "for_part"
    /\ UNCHANGED <<alone_vars, provider_vars, subtitle, chapter, part, sub_part, documents, emitted>>

ForSubchapterEnd ==
    /\ pc = "for_subchapter"
    /\ iter.DIV4 = <<>>
    /\ pc' = "for_chapter"
    /\ UNCHANGED <<alone_vars, provider_vars, stdout, walk_locals, outputs>>

\* What line 155 enumerates on entering a part.
sub_parts_of_part(p) == find_all(root, Root, "DIV6")

\* for part in root.find_all("DIV5")
ForPart ==
    /\ pc = "for_part"
    /\ iter.DIV5 # <<>>
    /\ part' = Head(iter.DIV5)
    /\ iter' = [iter EXCEPT !.DIV5 = Tail(@),
                            !.DIV6 = sub_parts_of_part(Head(iter.DIV5))]
    /\ stdout' = stdout \cup {"Part"}
    /\ visits' = [visits EXCEPT !.DIV5[Head(iter.DIV5).i] = @ + 1]
    /\ pc' = "for_sub_part"
    /\ UNCHANGED <<alone_vars, provider_vars, subtitle, chapter, subchapter, sub_part, documents, emitted>>

ForPartEnd ==
    /\ pc = "for_part"
    /\ iter.DIV5 = <<>>
    /\ pc' = "for_subchapter"
    /\ UNCHANGED <<alone_vars, provider_vars, stdout, walk_locals, outputs>>

\* for sub_part in root.find_all("DIV6")
ForSubPart ==
    /\ pc = "for_sub_part"
    /\ iter.DIV6 # <<>>
    /\ sub_part' = Head(iter.DIV6)
    /\ iter' = [iter EXCEPT !.DIV6 = Tail(@),
                            !.DIV8 = find_all(root, Head(iter.DIV6), "DIV8")]
    /\ stdout' = stdout \cup {"Sub part"}
    /\ visits' = [visits EXCEPT !.DIV6[Head(iter.DIV6).i] = @ + 1]
    /\ pc' = "for_section"
    /\ UNCHANGED <<alone_vars, provider_vars, subtitle, chapter, subchapter, part, documents, emitted>>

ForSubPartEnd ==
    /\ pc = "for_sub_part"
    /\ iter.DIV6 = <<>>
    /\ pc' = "for_part"
    /\ UNCHANGED <<alone_vars, provider_vars, stdout, walk_locals, outputs>>

\* for section in sub_part.find_all("DIV8"): lines 161-200
ForSection ==
    /\ pc = "for_section"
    /\ iter.DIV8 # <<>>
    /\ LET section == Head(iter.DIV8)
           ecfr_link == get_ecfr_link_to_section(str(title_num), N(root, subtitle),
                            N(root, chapter), N(root, part), N(root, sub_part),
                            N(root, section))
           section_file == leaf_file(title_num, N(root, subtitle), N(root, chapter),
                               N(root, subchapter), N(root, part), N(root, sub_part),
                               N(root, section))
       IN write_text(section_file, section,
                     result(section, ecfr_link, section_metadata(section, ecfr_link)))
    /\ iter' = [iter EXCEPT !.DIV8 = Tail(@)]
    /\ UNCHANGED <<alone_vars, provider_vars, pc, stdout, subtitle, chapter, subchapter, part, sub_part>>

ForSectionEnd ==
    /\ pc = "for_section"
    /\ iter.DIV8 = <<>>
    /\ iter' = [iter EXCEPT !.DIV9 = find_all(root, sub_part, "DIV9")]
    /\ pc' = "for_appendix"
    /\ UNCHANGED <<alone_vars, provider_vars, stdout, subtitle, chapter, subchapter, part, sub_part, outputs>>

\* for appendix in sub_part.find_all("DIV9"): lines 203-242
ForAppendix ==
    /\ pc = "for_appendix"
    /\ iter.DIV9 # <<>>
    /\ LET appendix == Head(iter.DIV9)
           ecfr_link == get_ecfr_link_to_appendix(str(title_num), N(root, subtitle),
                            N(root, chapter), N(root, part), N(root, sub_part),
                            N(root, appendix))
           appendix_file == leaf_file(title_num, N(root, subtitle), N(root, chapter),
                                N(root, subchapter), N(root, part), N(root, sub_part),
                                N(root, appendix))
       IN write_text(appendix_file, appendix,
                     result(appendix, ecfr_link, appendix_metadata(appendix, ecfr_link)))
    /\ iter' = [iter EXCEPT !.DIV9 = Tail(@)]
    /\ UNCHANGED <<alone_vars, provider_vars, pc, stdout, subtitle, chapter, subchapter, part, sub_part>>

ForAppendixEnd ==
    /\ pc = "for_appendix"
    /\ iter.DIV9 = <<>>
    /\ pc' = "for_sub_part"
    /\ UNCHANGED <<alone_vars, provider_vars, stdout, walk_locals, outputs>>

InitAlone ==
    /\ element = [HEAD |-> NoTag, P |-> <<>>, CITA |-> NoTag]
    /\ title = None /\ paragraphs = <<>> /\ text = <<>> /\ citation = None
    /\ md = <<>> /\ rpc = "idle"
    /\ args = <<>> /\ url = <<>> /\ lpc = "idle"

Init == InitWalk /\ InitAlone

Next ==
    \/ CacheHit \/ CacheMiss \/ GetTitleDate \/ RequestXml \/ WriteCache \/ Parse
    \/ ForSubtitle \/ ForSubtitleEnd \/ ForChapter \/ ForChapterEnd
    \/ ForSubchapter \/ ForSubchapterEnd \/ ForPart \/ ForPartEnd
    \/ ForSubPart \/ ForSubPartEnd \/ ForSection \/ ForSectionEnd
    \/ ForAppendix \/ ForAppendixEnd

Spec == Init /\ [][Next]_vars

\* ------------------------------------------------------------------------
\* process_cfr_xml_element called on its own, on every leaf of a bounded set
\* ------------------------------------------------------------------------
\* fetch_and_parse_cfr_xml not running.
WalkIdle ==
    /\ pc = "idle" /\ title_num = 29
    /\ cache = AbsentFile /\ cache_at_call = AbsentFile /\ cache_dir = FALSE
    /\ remote = NoXml /\ requests = <<>> /\ stdout = {} /\ exc = "none"
    /\ date = "unset" /\ xml_data = NoneData
    /\ subtitle = NoNode /\ chapter = NoNode /\ subchapter = NoNode
    /\ part = NoNode /\ sub_part = NoNode /\ iter = NoIter
    /\ documents = <<>> /\ emitted = {} /\ visits = <<>>

\* What a HEAD or a CITA may hold: nothing, one text, a text and a child
\* tag, one child tag holding a text.
Contents ==
    {<<>>, <<TextNode(<<"A">>)>>, <<TextNode(<<"A">>), ChildTag(<<"B">>)>>,
     <<ChildTag(<<"B">>)>>}

\* What a P may hold: as above, or a text with a line break in it.
PContents ==
    {<<>>, <<TextNode(<<"A">>)>>, <<TextNode(<<"B">>)>>,
     <<TextNode(<<"A">>), ChildTag(<<"B">>)>>,
     <<TextNode(<<"A", "\n", "B">>)>>}

RECURSIVE SeqsUpTo(_, _)
\* The sequences over S of length at most n.
SeqsUpTo(S, n) ==
    IF n = 0 THEN {<<>>}
    ELSE SeqsUpTo(S, n - 1)
         \cup {Append(q, e) : q \in {r \in SeqsUpTo(S, n - 1) : Len(r) = n - 1}, e \in S}

Elements ==
    [HEAD : {NoTag} \cup Contents, P : SeqsUpTo(PContents, MaxParas),
     CITA : {NoTag} \cup Contents]

InitRender ==
    /\ WalkIdle
    /\ element \in Elements
    /\ title = None /\ paragraphs = <<>> /\ text = <<>> /\ citation = None
    /\ md = <<>> /\ rpc = "call"
    /\ args = <<>> /\ url = <<>> /\ lpc = "idle"

\* CFRToMd.py lines 15-31, with the locals as they are at the return.
Render ==
    /\ rpc = "call"
    /\ title' = title_of(element)
    /\ paragraphs' = paragraphs_of(element)
    /\ text' = text_of(element)
    /\ citation' = citation_of(element)
    /\ md' = process_cfr_xml_element(element)
    /\ rpc' = "returned"
    /\ UNCHANGED <<element, walk_vars, link_vars>>

SpecRender == InitRender /\ [][Render]_vars

\* ------------------------------------------------------------------------
\* The deep-link builders called on their own
\* ------------------------------------------------------------------------
LeafCodes == {<<"1">>, <<"7", " ", "a">>, <<"7", "/", "a">>, <<"7", "%", "2", "0", "a">>,
              <<"A">>}

LinkArgs ==
    [title_num : {str(29)}, subtitle_num : {<<"A">>, <<"B">>},
     chapter_num : {<<"I">>, <<"I", "/", "1">>}, part_num : {<<"1">>, <<"2">>},
     subpart_num : {<<"A">>, <<"A", " ", "b">>}, leaf_num : LeafCodes]

InitLink ==
    /\ WalkIdle
    /\ element = [HEAD |-> NoTag, P |-> <<>>, CITA |-> NoTag]
    /\ title = None /\ paragraphs = <<>> /\ text = <<>> /\ citation = None
    /\ md = <<>> /\ rpc = "idle"
    /\ args \in LinkArgs /\ url = <<>> /\ lpc = "call"

CallSectionLink ==
    /\ lpc = "call"
    /\ url' = get_ecfr_link_to_section(args.title_num, args.subtitle_num,
                  args.chapter_num, args.part_num, args.subpart_num, args.leaf_num)
    /\ lpc' = "section"
    /\ UNCHANGED <<args, walk_vars, render_vars>>

CallAppendixLink ==
    /\ lpc = "call"
    /\ url' = get_ecfr_link_to_appendix(args.title_num, args.subtitle_num,
                  args.chapter_num, args.part_num, args.subpart_num, args.leaf_num)
    /\ lpc' = "appendix"
    /\ UNCHANGED <<args, walk_vars, render_vars>>

NextLink == CallSectionLink \/ CallAppendixLink

SpecLink == InitLink /\ [][NextLink]_vars

\* ------------------------------------------------------------------------
\* Claims
\* ------------------------------------------------------------------------
last_request == requests[Len(requests)]

\* C1: when the walk is over, every DIV8 and DIV9 of the document has
\* produced exactly one file: as many files as leaves, every leaf written,
\* no leaf written to more than one path.
C1_OneFilePerLeaf ==
    pc = "done" =>
        /\ Cardinality(DOMAIN documents) = Cardinality(Leaves(root))
        /\ \A l \in Leaves(root) : Cardinality({e \in emitted : e[1] = l}) = 1

\* C2: no two distinct leaves are ever written to the same path.
C2_PathInjective ==
    \A e1 \in emitted : \A e2 \in emitted : e1[2] = e2[2] => e1[1] = e2[1]

AncestorKeys ==
    {"title_number", "title_description", "subtitle_number", "subtitle_description",
     "chapter_number", "chapter_description", "subchapter_number",
     "subchapter_description", "part_number", "part_description",
     "sub_part_number", "sub_part_description"}

\* C3: the metadata of every written document holds the code and the
\* description of every ancestor level (title, subtitle, chapter, subchapter,
\* part, subpart), the leaf's own code and description, and the URL.
C3_MetadataHasEveryAncestor ==
    \A f \in DOMAIN documents :
        LET keys == DOMAIN documents[f].metadata
        IN /\ AncestorKeys \subseteq keys
           /\ "url" \in keys
           /\ \/ {"section_number", "section_description"} \subseteq keys
              \/ {"appendix_number", "appendix_description"} \subseteq keys

\* C4: with no cache file and a non-success answer to the XML request, the
\* provider step ends with an absent result: the failure is logged, no
\* exception is raised, no cache file is written, no document is written.
C4_FetchFailureIsAbsentResult ==
    (/\ ~cache_at_call.is_file
     /\ requests # <<>>
     /\ last_request.api = "full"
     /\ last_request.status # 200)
    => /\ xml_data = NoneData
       /\ "Request failed with status code" \in stdout
       /\ exc = "none"
       /\ ~cache.is_file
       /\ documents = <<>>

\* C5: when the cache file exists at the call, no request for the XML body
\* is ever issued, the XML that is parsed and walked is the cache file's
\* text, and the cache file stays as it was.
C5_CacheHitUsesCacheOnly ==
    cache_at_call.is_file =>
        /\ \A i \in 1..Len(requests) : requests[i].api # "full"
        /\ cache = cache_at_call
        /\ pc # "call" => xml_data.text = cache_at_call.text

C5_Witness ==
    /\ cache_at_call.is_file
    /\ cache_at_call.text # remote
    /\ pc = "done"
    /\ emitted # {}

\* C6: both builders percent-encode the leaf code, a space and a "/" in it
\* included (nothing after "section-" / "appendix-" is a raw space or a raw
\* "/"), and leave the other components as they are.
C6_LeafCodePercentEncoded ==
    lpc \in {"section", "appendix"} =>
        LET head == LinkHead(args.title_num, args.subtitle_num, args.chapter_num,
                             args.part_num, args.subpart_num)
                    \o (IF lpc = "section" THEN SectionSegment ELSE AppendixSegment)
            tail == SubSeq(url, Len(head) + 1, Len(url))
        IN /\ StartsWith(url, head)
           /\ ~Contains(tail, " ")
           /\ ~Contains(tail, "/")

both_present == rpc = "returned" /\ element.HEAD # NoTag /\ element.CITA # NoTag

\* C7: for a leaf with a heading and a citation the returned string
\* starts with "# <heading>" and ends with "**<citation>**".
C7_StartsWithHeading ==
    both_present =>
        /\ StartsWith(md, <<"#", " ">> \o inner_text(element.HEAD))
        /\ EndsWith(md, <<"*", "*">> \o inner_text(element.CITA) \o <<"*", "*">>)

\* C8: without a HEAD the rendered title is exactly NO TITLE, without a CITA
\* the rendered citation is exactly NO CITE, and a HEAD (a CITA) that is
\* present is rendered as that element's text.
C8_TitleAndCitationText ==
    rpc = "returned" =>
        /\ element.HEAD = NoTag => format(title) = NO_TITLE
        /\ element.CITA = NoTag => format(citation) = NO_CITE
        /\ element.HEAD # NoTag => format(title) = inner_text(element.HEAD)
        /\ element.CITA # NoTag => format(citation) = inner_text(element.CITA)

\* What C9 has a paragraph contribute: its text, or a placeholder line.
claimed_paragraph(p) == IF inner_text(p) # <<>> THEN inner_text(p) ELSE <<"\n">>

\* C9: the body is the paragraphs in document order joined by one line
\* break, a paragraph with text contributing that text and one without text
\* a placeholder line, and the number of paragraphs can be told from it.
C9_BodyKeepsEveryParagraph ==
    rpc = "returned" =>
        /\ text = join(<<"\n">>, [i \in 1..Len(element.P) |->
                                     claimed_paragraph(element.P[i])])
        /\ \A ps \in SeqsUpTo(PContents, MaxParas) :
              text_of([element EXCEPT !.P = ps]) = text => Len(ps) = Len(element.P)

under_subparts == {l \in Leaves(root) : l.i > 0}

\* C10 as stated: when the walk is over, every DIV5 of the document and
\* every DIV6 of the document has been processed once per subchapter
\* iteration, and a subpart's leaves emitted once per subchapter iteration.
C10_OncePerSubchapter ==
    pc = "done" =>
        /\ \A j \in 1..root.nParts : visits.DIV5[j] = visits.DIV4
        /\ \A k \in 1..root.nSubparts : visits.DIV6[k] = visits.DIV4
        /\ \A l \in under_subparts : visits.leaf[l] = visits.DIV4

\* C10 as amended: every DIV5 of the document has been processed once per
\* subchapter iteration; every DIV6 of the document once per part iteration,
\* that is once per subchapter iteration and DIV5 of the document; and a
\* subpart's leaves have been emitted as often as their subpart was processed.
C10_OncePerSubchapterAndPart ==
    pc = "done" =>
        /\ \A j \in 1..root.nParts : visits.DIV5[j] = visits.DIV4
        /\ \A k \in 1..root.nSubparts : visits.DIV6[k] = visits.DIV4 * root.nParts
        /\ \A l \in under_subparts : visits.leaf[l] = visits.DIV4 * root.nParts

C10_Witness ==
    /\ pc = "done"
    /\ visits.DIV4 = 2
    /\ root.nParts = 2
    /\ \E l \in under_subparts : visits.leaf[l] = 4

=============================================================================
